---- MODULE Spec2Model ----
(***************************************************************************)
(* State-machine model of the single page router of nicegui:              *)
(*   src/nicegui/single_page_router.py    (SinglePageRouter)               *)
(*   src/nicegui/elements/router_frame.py (RouterFrame)                    *)
(* Paths are sequences of one-character strings, so that fnmatch, split,   *)
(* rstrip and startswith are computed the way the Python code does.        *)
(* The router config and the target class are not part of the sources;     *)
(* their operators (Cfg.., Target..) follow sections 3, 4.1 and 4.4 of    *)
(* the specification.                                                      *)
(* The router passes its frame base_path, on_navigate and user_data and    *)
(* calls RouterFrame.run_safe, none of which router_frame.py defines; the  *)
(* model takes update_content, clear and the 'open' handler from           *)
(* router_frame.py and lets run_safe call the callback it is given.        *)
(***************************************************************************)
EXTENDS Integers, Sequences, FiniteSets, TLC

\* ------------------------------------------------------------------ bounds
MaxRouters == 3

\* the deepest nesting of outlets in the specification of nested outlets
MaxNesting == 102

\* single_page_router.py:9
PATH_RESOLVING_MAX_RECURSION == 100

\* ------------------------------------------------------------------- paths
PRoot == <<"/">>
PA == <<"/", "a">>
PAB == <<"/", "a", "/", "b">>
PAX == <<"/", "a", "x">>
PC == <<"/", "c">>
PFrag == <<"#", "f">>

\* the paths a navigation is requested for
Paths == {PRoot, PA, PAB, PAX, PC, PFrag}

\* the value None of an optional string / an optional path
NoPath == <<"None">>

\* str.startswith
StartsWith(s, p) == Len(s) >= Len(p) /\ SubSeq(s, 1, Len(p)) = p

\* str.rstrip(ch)
RECURSIVE RStrip(_, _)
RStrip(s, ch) ==
    IF s # <<>> /\ s[Len(s)] = ch THEN RStrip(SubSeq(s, 1, Len(s) - 1), ch) ELSE s

\* fnmatch.fnmatch on a posix system: '*' matches any run of characters
\* (also '/'), '?' one character, everything else itself
RECURSIVE FnMatch(_, _)
FnMatch(s, p) ==
    IF p = <<>> THEN s = <<>>
    ELSE IF Head(p) = "*"
         THEN FnMatch(s, Tail(p)) \/ (s # <<>> /\ FnMatch(Tail(s), p))
         ELSE /\ s # <<>>
              /\ (Head(p) = "?" \/ Head(p) = Head(s))
              /\ FnMatch(Tail(s), Tail(p))

\* str.split(sep): the list of the pieces between the separators
RECURSIVE Split(_, _)
Split(s, sep) ==
    IF \A i \in 1..Len(s) : s[i] # sep THEN <<s>>
    ELSE LET k == CHOOSE i \in 1..Len(s) : s[i] = sep /\ \A j \in 1..(i - 1) : s[j] # sep
         IN <<SubSeq(s, 1, k - 1)>> \o Split(SubSeq(s, k + 1, Len(s)), sep)

\* sep.join(parts)
RECURSIVE Join(_, _)
Join(parts, sep) ==
    IF parts = <<>> THEN <<>>
    ELSE IF Len(parts) = 1 THEN parts[1]
    ELSE parts[1] \o <<sep>> \o Join(Tail(parts), sep)

\* ----------------------------------------------------------------- targets
\* SinglePageTarget (section 3, Target).  None is 0 for router_path and
\* router, "None" for builder and title, NoPath for fragment.
Target(path, valid, router_path, builder, title, fragment, router, pre, post) ==
    [original_path |-> path, valid |-> valid, router_path |-> router_path,
     builder |-> builder, title |-> title, fragment |-> fragment, router |-> router,
     on_pre_update |-> pre, on_post_update |-> post]

\* the canned target of single_page_router.py:185
NotFoundTarget ==
    Target(NoPath, TRUE, 0, "page_not_found", "Page not found", NoPath, 0, FALSE, FALSE)

\* ----------------------------------------------------------- router config
\* Two configs: the main outlet '/' (1) and the nested outlet '/a' (2).
Configs == {1, 2}

CfgBasePath(c) == IF c = 1 THEN PRoot ELSE PA

CfgParent(c) == IF c = 2 THEN 1 ELSE 0

\* the included path masks a router of the config is constructed with
CfgIncludedPaths(c) == IF c = 1 THEN <<PRoot>> ELSE <<PA>>

\* The route table: registration order is the order of the sequence.
\* An outlet entry matches its pattern and everything below it.
RouteEntries ==
    << [cfg |-> 1, pattern |-> PA, is_outlet |-> TRUE, builder |-> "outlet_a",
        title |-> "None", pre |-> FALSE, post |-> FALSE],
       [cfg |-> 1, pattern |-> PRoot, is_outlet |-> FALSE, builder |-> "home",
        title |-> "Home", pre |-> FALSE, post |-> FALSE],
       [cfg |-> 1, pattern |-> PC, is_outlet |-> FALSE, builder |-> "view_c",
        title |-> "None", pre |-> TRUE, post |-> TRUE],
       [cfg |-> 2, pattern |-> PA, is_outlet |-> FALSE, builder |-> "view_a",
        title |-> "A", pre |-> FALSE, post |-> FALSE],
       [cfg |-> 2, pattern |-> PAB, is_outlet |-> FALSE, builder |-> "view_ab",
        title |-> "AB", pre |-> TRUE, post |-> FALSE] >>

EntryIds == 1..Len(RouteEntries)

\* the config an outlet builder instantiates; 0 for a view
BuilderOutlet(b) == IF b = "outlet_a" THEN 2 ELSE 0

\* the part of the path before '#', and the fragment after it
PathPart(path) ==
    IF \E i \in 1..Len(path) : path[i] = "#"
    THEN SubSeq(path, 1, (CHOOSE i \in 1..Len(path) :
                            path[i] = "#" /\ \A j \in 1..(i - 1) : path[j] # "#") - 1)
    ELSE path

FragmentPart(path) ==
    IF \E i \in 1..Len(path) : path[i] = "#"
    THEN SubSeq(path, (CHOOSE i \in 1..Len(path) :
                         path[i] = "#" /\ \A j \in 1..(i - 1) : path[j] # "#") + 1, Len(path))
    ELSE NoPath

EntryMatches(e, p) ==
    \/ p = RouteEntries[e].pattern
    \/ /\ RouteEntries[e].is_outlet
       /\ StartsWith(p, RStrip(RouteEntries[e].pattern, "/") \o <<"/">>)

\* Target Resolver (section 4.1): first matching entry of the config's table
\* in registration order; no match is a valid target without entry and builder
CfgResolveTarget(c, path) ==
    LET p == PathPart(path)
        hits == {e \in EntryIds : RouteEntries[e].cfg = c /\ EntryMatches(e, p)}
    IN IF hits = {}
       THEN Target(path, TRUE, 0, "None", "None", FragmentPart(path), 0, FALSE, FALSE)
       ELSE LET e == CHOOSE x \in hits : \A y \in hits : x <= y
            IN Target(path, TRUE, e, RouteEntries[e].builder, RouteEntries[e].title,
                      FragmentPart(path), 0, RouteEntries[e].pre, RouteEntries[e].post)

\* --------------------------------------------------------------- callbacks
\* The callbacks an application installs, by what they do.
\*   on_navigate / handle_navigate: "same" returns the path, "vetoC" returns
\*     None for /c and the path otherwise, "toC" returns /c, "reenterC"
\*     returns the path and, for /c, calls navigate_to('/') before
\*   on_resolve: "invalidX" returns a target with valid = False for /ax and
\*     None otherwise, "customX" a valid target with its own builder for /ax
\*     and None otherwise, "customC" the same for /c
\*   on_open: "same" returns the target, "toC" sets original_path to /c,
\*     "swap" sets original_path /a to /c and /c to /a, "mark" appends '+'
\*     to the title

CallNavigateHook(h, path) ==
    IF h = "vetoC" /\ path = PC THEN NoPath
    ELSE IF h = "toC" THEN PC
    ELSE path

CallOpenHook(h, t) ==
    IF h = "mark" THEN [t EXCEPT !.title = @ \o "+"]
    ELSE IF h = "toC" THEN [t EXCEPT !.original_path = PC]
    ELSE IF h = "swap" /\ t.original_path = PA THEN [t EXCEPT !.original_path = PC]
    ELSE IF h = "swap" /\ t.original_path = PC THEN [t EXCEPT !.original_path = PA]
    ELSE t

\* core.app.config.title
AppTitle == "AppTitle"

\* ------------------------------------------------------------------- state
VARIABLES
    routers,   \* the SinglePageRouter objects and their RouterFrame, by id
    config,    \* the callbacks declared on the router configs and route entries
    title,     \* the page title (ui.page_title)
    tasks,     \* the background builds created and not yet run
    log,       \* what the last operation did, in order
    result,    \* the value the last resolve_target call returned
    error      \* the exception the last operation raised, "none" if none

vars == <<routers, config, title, tasks, log, result, error>>

RouterIds == 1..MaxRouters

\* An entry of the log: what happened (ev), the router or frame it happened
\* in (r), the path (p) and the callback, builder or title (x) involved.
Ev(ev, r, p, x) == [ev |-> ev, r |-> r, p |-> p, x |-> x, n |-> 0, flags |-> <<>>]

\* the entry of an on_open callback of route entry or config n
OpenEv(ev, r, p, x, n) == [ev |-> ev, r |-> r, p |-> p, x |-> x, n |-> n, flags |-> <<>>]

\* the entry of a navigate_to call, with server_side, sync and history
CallEv(r, p, ss, sy, hi) ==
    [ev |-> "navigate_to", r |-> r, p |-> p, x |-> "", n |-> 0, flags |-> <<ss, sy, hi>>]

\* the entry of a call of the frame's navigate_to, with _server_side and _sync
FrameCallEv(f, p, ss, sy) ==
    [ev |-> "frame_navigate_to", r |-> f, p |-> p, x |-> "", n |-> 0, flags |-> <<ss, sy>>]

\* the argument of navigate_to / resolve_target: a str or a SinglePageTarget
StrArg(p) == [str |-> TRUE, path |-> p, t |-> NotFoundTarget]
TargetArg(t) == [str |-> FALSE, path |-> t.original_path, t |-> t]

\* a slot that holds no router object
NoRouter ==
    [exists |-> FALSE, config |-> 0, parent_router |-> 0, base_path |-> NoPath,
     included_paths |-> <<>>, use_browser_history |-> FALSE, change_title |-> FALSE,
     child_routers |-> <<>>, on_navigate |-> "unset", on_resolve |-> "unset",
     on_open |-> "unset", target_url |-> NoPath, content |-> <<>>,
     child_frames |-> <<>>, frame_on_resolve |-> "unset", frame_change_title |-> FALSE]

\* dict[key] = value: a new key is appended, a known key keeps its place
DictSet(d, k, v) ==
    IF \E i \in 1..Len(d) : d[i].mask = k
    THEN [i \in 1..Len(d) |-> IF d[i].mask = k THEN [mask |-> k, router |-> v] ELSE d[i]]
    ELSE Append(d, [mask |-> k, router |-> v])

\* ----------------------------------------------------------- resolve_target
CallResolveHook(h, arg) ==
    IF h = "invalidX" /\ arg.path = PAX
    THEN [none |-> FALSE,
          t |-> Target(arg.path, FALSE, 0, "None", "None", NoPath, 0, FALSE, FALSE)]
    ELSE IF (h = "customX" /\ arg.path = PAX) \/ (h = "customC" /\ arg.path = PC)
    THEN [none |-> FALSE,
          t |-> Target(arg.path, TRUE, 0, "custom_view", "Custom", NoPath, 0, FALSE, FALSE)]
    ELSE [none |-> TRUE, t |-> NotFoundTarget]

\* the callbacks rest ran, after the entry ev
AfterEv(ev, rest) == [rest EXCEPT !.log = <<ev>> \o @]

\* single_page_router.py:124-130: the on_open callbacks of the config and
\* of its parent configs, innermost first, until one changes original_path
RECURSIVE OpenConfigChain(_, _, _, _, _)
OpenConfigChain(cf, r, c, t, original) ==
    IF c = 0 THEN [t |-> t, log |-> <<>>, redirect |-> FALSE]
    ELSE IF cf.on_open[c] = "unset" THEN OpenConfigChain(cf, r, CfgParent(c), t, original)
    ELSE IF CallOpenHook(cf.on_open[c], t).original_path # original
    THEN [t |-> CallOpenHook(cf.on_open[c], t),
          log |-> <<OpenEv("on_open_config", r, t.original_path, cf.on_open[c], c)>>,
          redirect |-> TRUE]
    ELSE AfterEv(OpenEv("on_open_config", r, t.original_path, cf.on_open[c], c),
                 OpenConfigChain(cf, r, CfgParent(c), CallOpenHook(cf.on_open[c], t),
                                 original))

\* single_page_router.py:118, 123, 129: what resolve_target is called with
\* again after a callback has changed original_path
ReResolveArg(t) == TargetArg(t)

ReResolveEv(r, t) == Ev("re_resolve", r, t.original_path, "")

\* the entry of the on_resolve callback, if one is set
OnResolveLog(R, r, arg) ==
    IF R[r].on_resolve # "unset"
    THEN <<Ev("on_resolve", r, arg.path, R[r].on_resolve)>> ELSE <<>>

\* the result res of a resolve_target call, with the entries l before its own
After(l, res) == [t |-> res.t, log |-> l \o res.log]

\* single_page_router.py:108-109
WithRouter(t, r) == IF t.valid /\ t.router = 0 THEN [t EXCEPT !.router = r] ELSE t

RECURSIVE ResolveTarget(_, _, _, _)

\* single_page_router.py:124-131, ch the outcome of the config callbacks
ResolveConfigOpened(R, cf, r, l, ch) ==
    IF ch.redirect
    THEN After(l \o ch.log \o <<ReResolveEv(r, ch.t)>>,
               ResolveTarget(R, cf, r, ReResolveArg(ch.t)))
    ELSE [t |-> ch.t, log |-> l \o ch.log]

\* single_page_router.py:122-124, t the target after the route entry's on_open
ResolveEntryOpened(R, cf, r, original, t, l) ==
    IF t.original_path # original
    THEN After(l \o <<ReResolveEv(r, t)>>, ResolveTarget(R, cf, r, ReResolveArg(t)))
    ELSE ResolveConfigOpened(R, cf, r, l,
                             OpenConfigChain(cf, r, R[r].config, t, original))

\* single_page_router.py:116-121, t the target after the router's on_open
ResolveRouterOpened(R, cf, r, original, t, l) ==
    IF t.original_path # original
    THEN After(l \o <<ReResolveEv(r, t)>>, ResolveTarget(R, cf, r, ReResolveArg(t)))
    ELSE ResolveEntryOpened(
            R, cf, r, original,
            IF cf.entry_on_open[t.router_path] # "unset"
            THEN CallOpenHook(cf.entry_on_open[t.router_path], t) ELSE t,
            IF cf.entry_on_open[t.router_path] # "unset"
            THEN l \o <<OpenEv("on_open_entry", r, original,
                               cf.entry_on_open[t.router_path], t.router_path)>>
            ELSE l)

\* resolve_target without lines 114-118: the router's on_open is not called
ResolveOpenSkippingRouter(R, cf, r, t, l) ==
    IF t.router_path = 0 THEN [t |-> t, log |-> l]
    ELSE ResolveRouterOpened(R, cf, r, t.original_path, t, l)

\* single_page_router.py:112-115, t the target the config resolved
ResolveOpen(R, cf, r, t, l) ==
    IF t.router_path = 0 THEN [t |-> t, log |-> l]
    ELSE ResolveRouterOpened(
            R, cf, r, t.original_path,
            IF R[r].on_open # "unset" THEN CallOpenHook(R[r].on_open, t) ELSE t,
            IF R[r].on_open # "unset"
            THEN l \o <<Ev("on_open_router", r, t.original_path, R[r].on_open)>>
            ELSE l)

\* resolve_target without the return of line 105: the callback's target is
\* dropped and the target resolved as if no callback was set
ResolveTargetIgnoringHook(R, cf, r, arg) ==
    IF ~arg.str THEN [t |-> arg.t, log |-> OnResolveLog(R, r, arg)]
    ELSE ResolveOpen(R, cf, r, WithRouter(CfgResolveTarget(R[r].config, arg.path), r),
                     OnResolveLog(R, r, arg) \o <<Ev("cfg_resolve", r, arg.path, "")>>)

\* single_page_router.py:95-131, the value returned and the callbacks run
ResolveTarget(R, cf, r, arg) ==
    IF R[r].on_resolve # "unset" /\ ~CallResolveHook(R[r].on_resolve, arg).none
    THEN [t |-> CallResolveHook(R[r].on_resolve, arg).t, log |-> OnResolveLog(R, r, arg)]
    ELSE IF ~arg.str THEN [t |-> arg.t, log |-> OnResolveLog(R, r, arg)]
    ELSE ResolveOpen(R, cf, r, WithRouter(CfgResolveTarget(R[r].config, arg.path), r),
                     OnResolveLog(R, r, arg) \o <<Ev("cfg_resolve", r, arg.path, "")>>)

\* the entries of handle_navigate: the callbacks called and, last, that
\* one returned None
NavigateLog(r, path, h, p1, hc, none) ==
    (IF h # "unset" THEN <<Ev("on_navigate", r, path, h)>> ELSE <<>>)
    \o (IF p1 # NoPath THEN <<Ev("cfg_handle_navigate", r, p1, hc)>> ELSE <<>>)
    \o (IF p1 = NoPath THEN <<Ev("returned_none", r, path, h)>>
        ELSE IF none THEN <<Ev("returned_none", r, p1, hc)>> ELSE <<>>)

\* handle_navigate without the returns of lines 146 and 148 taken for None:
\* the navigation goes on with the path the callback was called with
HandleNavigateIgnoringNone(R, cf, r, path) ==
    LET h == R[r].on_navigate
        hc == cf.handle_navigate[R[r].config]
        p1 == IF h # "unset" THEN CallNavigateHook(h, path) ELSE path
        p2 == IF p1 = NoPath THEN path ELSE p1
    IN [path |-> IF CallNavigateHook(hc, p2) = NoPath THEN p2 ELSE CallNavigateHook(hc, p2),
        log |-> NavigateLog(r, path, h, p1, hc,
                            p1 # NoPath /\ CallNavigateHook(hc, p1) = NoPath)]

\* single_page_router.py:133-148; NoPath is the return value None
HandleNavigate(R, cf, r, path) ==
    LET h == R[r].on_navigate
        hc == cf.handle_navigate[R[r].config]
        p1 == IF h # "unset" THEN CallNavigateHook(h, path) ELSE path
    IN [path |-> IF p1 = NoPath THEN NoPath ELSE CallNavigateHook(hc, p1),
        log |-> NavigateLog(r, path, h, p1, hc,
                            p1 # NoPath /\ CallNavigateHook(hc, p1) = NoPath)]

\* ------------------------------------------------------------ construction
\* the constructor keeping the config's base path as it is written
SubstBasePathLiteral(base_path, target_url) == Split(base_path, "/")

\* single_page_router.py:58-64: '{name}' elements of the base path are
\* replaced by the element of the target url at the same index
SubstBasePath(base_path, target_url) ==
    LET b == Split(base_path, "/")
        u == Split(target_url, "/")
    IN [i \in 1..Len(b) |->
          IF b[i] # <<>> /\ b[i][1] = "{" /\ b[i][Len(b[i])] = "}" /\ i <= Len(u)
          THEN u[i] ELSE b[i]]

\* single_page_router.py:66-73: '*' elements of an included path are
\* replaced by the element of the resolved base path at the same index
SubstIncludedPath(path, base_path_elements) ==
    LET e == Split(path, "/")
    IN Join([j \in 1..Len(e) |->
               IF e[j] = <<"*">> /\ j <= Len(base_path_elements)
               THEN base_path_elements[j] ELSE e[j]], "/")

\* the routers registered below the root router, any number of levels down
RECURSIVE Below(_, _, _)
Below(R, r, n) ==
    IF n = 0 THEN {}
    ELSE LET kids == {R[r].child_routers[i].router : i \in 1..Len(R[r].child_routers)}
         IN kids \cup UNION {Below(R, k, n - 1) : k \in kids}

\* a router and the routers its parent_router chain leads to
RECURSIVE Ancestors(_, _, _)
Ancestors(R, r, n) ==
    IF r = 0 \/ n = 0 THEN {} ELSE {r} \cup Ancestors(R, R[r].parent_router, n - 1)

\* The router objects something still refers to: the root router and the
\* routers registered below it, the routers whose frame a pending build
\* will run in, and the parents of all of these.  The other objects are
\* unreachable; the interpreter reclaims them.
Referenced(W) ==
    LET R == W.routers
        held == {1} \cup Below(R, 1, MaxRouters)
                    \cup {W.tasks[k].frame : k \in 1..Len(W.tasks)}
    IN UNION {Ancestors(R, r, MaxRouters) : r \in held}

\* the slots a router constructed by a build in frame f can take
FreeSlots(W, f) == RouterIds \ (Referenced(W) \cup Ancestors(W.routers, f, MaxRouters))

Collect(W) ==
    [W EXCEPT !.routers = [i \in RouterIds |->
                              IF i \in Referenced(W) THEN W.routers[i] ELSE NoRouter]]

\* single_page_router.py:253-259
RegisterChildRouter(R, parent, path, child) ==
    [R EXCEPT ![parent].child_routers = DictSet(@, path, child)]

\* single_page_router.py:44-50: the initial url of the router's frame;
\* NoPath is None
InitialUrl(R, c, parent_router, target_url) ==
    IF target_url # NoPath THEN target_url
    ELSE IF parent_router # 0 /\ R[parent_router].target_url # NoPath
         THEN R[parent_router].target_url
         ELSE CfgBasePath(c)

\* single_page_router.py:65-73
SubstIncludedPaths(included_paths, base_path_elements) ==
    [i \in 1..Len(included_paths) |->
        SubstIncludedPath(included_paths[i], base_path_elements)]

\* single_page_router.py:51-56, 74-86 and the frame the router creates
\* (router_frame.py:47-64): the frame is given no change_title argument and
\* keeps its default, True
NewRouter(c, use_browser_history, change_title, parent_router, url, base, incl) ==
    [exists |-> TRUE, config |-> c, parent_router |-> parent_router,
     base_path |-> Join(base, "/"), included_paths |-> incl,
     use_browser_history |-> use_browser_history,
     change_title |-> change_title, child_routers |-> <<>>,
     on_navigate |-> "unset", on_resolve |-> "unset", on_open |-> "unset",
     target_url |-> url, content |-> <<>>, child_frames |-> <<>>,
     frame_on_resolve |-> "unset", frame_change_title |-> TRUE]

\* single_page_router.py:75-76
PlaceRouter(W, id, obj, parent_router) ==
    [W EXCEPT !.routers = IF parent_router # 0
                          THEN RegisterChildRouter([@ EXCEPT ![id] = obj], parent_router,
                                                   obj.included_paths[1], id)
                          ELSE [@ EXCEPT ![id] = obj],
              !.log = Append(@, Ev("construct", id, obj.included_paths[1], ""))]

ConstructWithBase(W, id, c, included_paths, use_browser_history, change_title, parent_router, url, base) ==
    PlaceRouter(W, id,
                NewRouter(c, use_browser_history, change_title, parent_router, url, base,
                          SubstIncludedPaths(included_paths, base)),
                parent_router)

ConstructWithUrl(W, id, c, included_paths, use_browser_history, change_title, parent_router, url) ==
    ConstructWithBase(W, id, c, included_paths, use_browser_history, change_title,
                      parent_router, url, SubstBasePath(CfgBasePath(c), url))

\* single_page_router.py:25-86, SinglePageRouter.__init__
ConstructRouter(W, id, c, included_paths, use_browser_history, change_title, parent_router, target_url) ==
    ConstructWithUrl(W, id, c, included_paths, use_browser_history, change_title,
                     parent_router, InitialUrl(W.routers, c, parent_router, target_url))

\* single_page_router.py:213-218
SetOnNavigate(R, r, callback) == [R EXCEPT ![r].on_navigate = callback]

\* single_page_router.py:220-225
SetOnResolve(R, r, callback) == [R EXCEPT ![r].on_resolve = callback]

\* single_page_router.py:227-232
SetOnOpen(R, r, callback) == [R EXCEPT ![r].on_open = callback]

\* router_frame.py:72-78
SetFrameOnResolve(R, f, on_resolve) == [R EXCEPT ![f].frame_on_resolve = on_resolve]

\* The application installs its callbacks on a router it has constructed.
InstallHooks(W, id, hooks) ==
    [W EXCEPT !.routers =
        SetFrameOnResolve(
            SetOnOpen(SetOnResolve(SetOnNavigate(@, id, hooks.on_navigate),
                                   id, hooks.on_resolve),
                      id, hooks.on_open),
            id, hooks.frame_on_resolve)]

\* ------------------------------------------------------------------ builds
\* the builder's content is mounted in the frame f
Mount(W, f, builder) ==
    [W EXCEPT !.routers[f].content = Append(@, builder),
              !.log = Append(@, Ev("build", f, <<>>, builder))]

Least(S) == CHOOSE i \in S : \A j \in S : i <= j

\* the builder of an outlet instantiates the router of the nested outlet
\* config c in one of the free slots; its parent is the router of the
\* enclosing frame f (section 2, data flow)
BuildOutlet(W, cf, f, c, free) ==
    IF c = 0 THEN W
    ELSE IF free = {} THEN [W EXCEPT !.overflow = TRUE]
    ELSE InstallHooks(
            ConstructRouter(W, Least(free), c, CfgIncludedPaths(c), TRUE, TRUE, f, NoPath),
            Least(free), cf.router_hooks[c])

\* What a builder does when it runs inside the frame f (router_frame.py:
\* 134-138, 141-142, 150-151).
RunBuilder(W, cf, f, builder) ==
    BuildOutlet(Mount(W, f, builder), cf, f, BuilderOutlet(builder),
                FreeSlots(Mount(W, f, builder), f))

\* router_frame.py:157-161
FrameClear(W, f) ==
    [W EXCEPT !.routers[f].child_frames = <<>>,
              !.routers[f].content = <<>>,
              !.log = Append(@, Ev("frame_clear", f, <<>>, ""))]

\* router_frame.py:131-132
FrameTitle(W, f, ttl) ==
    IF W.routers[f].frame_change_title
    THEN [W EXCEPT !.title = IF ttl # "None" THEN ttl ELSE AppTitle,
                   !.log = Append(@, Ev("title", f, <<>>,
                                        IF ttl # "None" THEN ttl ELSE AppTitle))]
    ELSE W

\* router_frame.py:143-146, 152-153
GoToFragment(W, f, fragment) ==
    IF fragment # NoPath
    THEN [W EXCEPT !.log = Append(@, Ev("fragment_js", f, fragment, ""))]
    ELSE W

\* router_frame.py:148-155
BuildOrSchedule(W, cf, f, builder, fragment, sync) ==
    IF sync THEN GoToFragment(RunBuilder(W, cf, f, builder), f, fragment)
    ELSE [W EXCEPT !.tasks = Append(@, [frame |-> f, builder |-> builder,
                                        fragment |-> fragment]),
                   !.log = Append(@, Ev("schedule", f, <<>>, builder))]

\* update_content without the clear of line 148
UpdateContentKeeping(W, cf, f, builder, ttl, fragment, sync) ==
    BuildOrSchedule(FrameTitle(W, f, ttl), cf, f, builder, fragment, sync)

\* router_frame.py:124-155
UpdateContent(W, cf, f, builder, ttl, fragment, sync) ==
    BuildOrSchedule(FrameClear(FrameTitle(W, f, ttl), f), cf, f, builder, fragment, sync)

\* router_frame.py:140-146, the background task created at line 155
RunTask(W, cf, task) ==
    GoToFragment(RunBuilder(W, cf, task.frame, task.builder), task.frame, task.fragment)

\* single_page_router.py:202-205
RouterClear(W, r) ==
    FrameClear([W EXCEPT !.routers[r].child_routers = <<>>,
                         !.log = Append(@, Ev("clear", r, <<>>, ""))], r)

\* single_page_router.py:267-276: the routers written and whether the loop
\* ended at a router without parent (the return of line 276)
RECURSIVE UpdateTargetUrlLoop(_, _, _, _)
UpdateTargetUrlLoop(R, cur_router, target_url, i) ==
    IF i >= PATH_RESOLVING_MAX_RECURSION THEN [routers |-> R, ended |-> FALSE, visited |-> i]
    ELSE IF R[cur_router].parent_router = 0
    THEN [routers |-> [R EXCEPT ![cur_router].target_url = target_url],
          ended |-> TRUE, visited |-> i + 1]
    ELSE UpdateTargetUrlLoop([R EXCEPT ![cur_router].target_url = target_url],
                             R[cur_router].parent_router, target_url, i + 1)

UpdateTargetUrl(R, r, target_url) == UpdateTargetUrlLoop(R, r, target_url, 0)

\* the entry of a call of _update_target_url and how its loop ended
UpdateUrlEv(r, target_url, up) ==
    Ev("update_url", r, target_url, IF up.ended THEN "chain_ended" ELSE "cap_reached")

\* -------------------------------------------------------------- navigate_to
\* line 162 without its second alternative
ChildMatchesMaskOnly(path_mask, target) == FnMatch(target, path_mask)

\* single_page_router.py:162
ChildMatches(path_mask, target) ==
    \/ FnMatch(target, path_mask)
    \/ FnMatch(target, RStrip(path_mask, "/") \o <<"/", "*">>)

\* single_page_router.py:161-162: the first child router, in the order of
\* the dict, whose mask matches; 0 if there is none
FirstChildRouter(d, target) ==
    IF \E i \in 1..Len(d) : ChildMatches(d[i].mask, target)
    THEN CHOOSE i \in 1..Len(d) :
            /\ ChildMatches(d[i].mask, target)
            /\ \A j \in 1..(i - 1) : ~ChildMatches(d[j].mask, target)
    ELSE 0

\* single_page_router.py:163: the server_side, sync and history values the
\* child router's navigate_to is called with
DelegateFlags(server_side, sync, history) == <<server_side, FALSE, TRUE>>

\* navigate_to without the check of line 172
NeverSuppressed(t) == FALSE

\* single_page_router.py:172
Suppressed(t) == ~t.valid

\* single_page_router.py:178
PushesHistory(server_side, history, use_browser_history) ==
    history /\ use_browser_history

\* navigate_to without the substitution of line 185
RenderedAsResolved(t) == t

\* single_page_router.py:180-185: the target that is rendered
RenderedTarget(t) == IF t.builder = "None" THEN NotFoundTarget ELSE t

AddLog(W, evs) == [W EXCEPT !.log = @ \o evs]

\* single_page_router.py:190-191
PreUpdate(W, r, t, target_url) ==
    IF t.on_pre_update THEN AddLog(W, <<Ev("on_pre_update", r, target_url, "")>>) ELSE W

\* single_page_router.py:194-198
RouterTitle(W, r, t) ==
    IF /\ W.routers[r].change_title
       /\ t.builder # "None"
       /\ Len(W.routers[r].child_routers) = 0
    THEN [W EXCEPT !.title = IF t.title # "None" THEN t.title ELSE AppTitle,
                   !.log = Append(@, Ev("title", r, <<>>,
                                        IF t.title # "None" THEN t.title ELSE AppTitle))]
    ELSE W

\* single_page_router.py:199-200
PostUpdate(W, r, t, target_url) ==
    IF t.on_post_update THEN AddLog(W, <<Ev("on_post_update", r, target_url, "")>>) ELSE W

\* navigate_to keeping the mounted content when it is the target's already
RenderCached(W, cf, r, t, target_url, sync) ==
    IF W.routers[r].content = <<t.builder>> THEN W
    ELSE PostUpdate(
            RouterTitle(
                UpdateContent(RouterClear(PreUpdate(W, r, t, target_url), r),
                              cf, r, t.builder, t.title, t.fragment, sync),
                r, t),
            r, t, target_url)

\* single_page_router.py:186-200, t the target that is rendered
Render(W, cf, r, t, target_url, sync) ==
    PostUpdate(
        RouterTitle(
            UpdateContent(RouterClear(PreUpdate(W, r, t, target_url), r),
                          cf, r, t.builder, t.title, t.fragment, sync),
            r, t),
        r, t, target_url)

\* single_page_router.py:176
WriteTargetUrl(W, r, target_url, up) ==
    [W EXCEPT !.routers = up.routers,
              !.log = Append(@, UpdateUrlEv(r, target_url, up))]

\* single_page_router.py:177-200, js the history push if there is one
NavigateUpdated(W, cf, r, t, js, sync) ==
    IF t.builder = "None" /\ t.fragment # NoPath
    THEN AddLog(W, js \o <<Ev("fragment_js", r, t.fragment, "")>>)
    ELSE Render(AddLog(W, js), cf, r, RenderedTarget(t), t.original_path, sync)

\* single_page_router.py:174-200
NavigateResolved(W, cf, r, t, server_side, sync, history) ==
    NavigateUpdated(
        WriteTargetUrl(W, r, t.original_path,
                       UpdateTargetUrl(W.routers, r, t.original_path)),
        cf, r, t,
        IF PushesHistory(server_side, history, W.routers[r].use_browser_history)
        THEN <<Ev("push", r, t.original_path, "")>> ELSE <<>>,
        sync)

\* the value resolve_target returned to router r
Resolved(W, r, res) ==
    [W EXCEPT !.log = @ \o res.log,
              !.result = [called |-> TRUE, r |-> r, t |-> res.t, log |-> res.log]]

\* single_page_router.py:172-200, res the outcome of resolve_target
NavigateWith(W, cf, r, res, server_side, sync, history) ==
    IF Suppressed(res.t) THEN Resolved(W, r, res)
    ELSE NavigateResolved(Resolved(W, r, res), cf, r, res.t, server_side, sync, history)

\* single_page_router.py:166-200, hn the outcome of handle_navigate
NavigateHandled(W, cf, r, arg, hn, server_side, sync, history) ==
    IF arg.str /\ hn.path = NoPath THEN AddLog(W, hn.log)
    ELSE NavigateWith(AddLog(W, hn.log), cf, r,
                      ResolveTarget(W.routers, cf, r,
                                    IF arg.str THEN StrArg(hn.path) ELSE arg),
                      server_side, sync, history)

\* single_page_router.py:165-200
NavigateLocal(W, cf, r, arg, server_side, sync, history) ==
    NavigateHandled(W, cf, r, arg,
                    IF arg.str THEN HandleNavigate(W.routers, cf, r, arg.path)
                    ELSE [path |-> arg.path, log |-> <<>>],
                    server_side, sync, history)

RECURSIVE NavigateTo(_, _, _, _, _, _, _)

\* single_page_router.py:160-200, k the index of the first matching child
NavigateVia(W, cf, r, arg, k, server_side, sync, history) ==
    IF k # 0
    THEN NavigateTo(AddLog(W, <<Ev("delegate", r, arg.path, "")>>), cf,
                    W.routers[r].child_routers[k].router, arg,
                    DelegateFlags(server_side, sync, history)[1],
                    DelegateFlags(server_side, sync, history)[2],
                    DelegateFlags(server_side, sync, history)[3])
    ELSE NavigateLocal(W, cf, r, arg, server_side, sync, history)

\* navigate_to without the isinstance test of line 159: the children are
\* consulted for a SinglePageTarget as well
NavigateToAnyTarget(W, cf, r, arg, server_side, sync, history) ==
    NavigateVia(AddLog(W, <<CallEv(r, arg.path, server_side, sync, history)>>), cf, r, arg,
                FirstChildRouter(W.routers[r].child_routers, arg.path),
                server_side, sync, history)

\* single_page_router.py:150-200, SinglePageRouter.navigate_to
NavigateTo(W, cf, r, arg, server_side, sync, history) ==
    NavigateVia(AddLog(W, <<CallEv(r, arg.path, server_side, sync, history)>>), cf, r, arg,
                IF arg.str THEN FirstChildRouter(W.routers[r].child_routers, arg.path)
                ELSE 0,
                server_side, sync, history)

\* ------------------------------------------------- RouterFrame.navigate_to
\* router_frame.py:100
FrameChildMatches(path_mask, target) ==
    path_mask = target \/ StartsWith(target, path_mask \o <<"/">>)

FirstChildFrame(d, target) ==
    IF \E i \in 1..Len(d) : FrameChildMatches(d[i].mask, target)
    THEN CHOOSE i \in 1..Len(d) :
            /\ FrameChildMatches(d[i].mask, target)
            /\ \A j \in 1..(i - 1) : ~FrameChildMatches(d[j].mask, target)
    ELSE 0

\* router_frame.py:114
FramePushesHistory(server_side, use_browser_history) ==
    server_side /\ use_browser_history

\* router_frame.py:114-117
FrameWriteUrl(W, f, t, server_side) ==
    [W EXCEPT !.routers[f].target_url = t.original_path,
              !.log = @ \o (IF FramePushesHistory(server_side,
                                                  W.routers[f].use_browser_history)
                            THEN <<Ev("push", f, t.original_path, "")>> ELSE <<>>)
                        \o <<Ev("frame_url", f, t.original_path, "")>>]

\* router_frame.py:103-122, with the target resolve_target returned
FrameNavigateResolved(W, cf, f, t, server_side, sync) ==
    IF t.router_path = 0 /\ t.fragment # NoPath
    THEN AddLog(W, <<Ev("fragment_js", f, t.fragment, "")>>)
    ELSE UpdateContent(FrameWriteUrl(W, f, t, server_side), cf, f,
                       IF t.router_path = 0 THEN "page_not_found"
                       ELSE RouteEntries[t.router_path].builder,
                       IF t.router_path = 0 THEN "Page not found"
                       ELSE RouteEntries[t.router_path].title,
                       t.fragment, sync)

\* router_frame.py:80-90, the target and the entry of the callback
FrameResolveTarget(W, f, arg) ==
    IF arg.str THEN CfgResolveTarget(W.routers[f].config, arg.path) ELSE arg.t

FrameResolveLog(W, f, arg) ==
    IF arg.str
    THEN <<Ev("frame_on_resolve", f, arg.path, W.routers[f].frame_on_resolve)>>
    ELSE <<>>

RECURSIVE FrameNavigateTo(_, _, _, _, _, _)

\* navigate_to with a resolve_target that does not raise at line 90 but
\* looks the target up in the route table
FrameNavigateViaTable(W, cf, f, arg, k, server_side, sync) ==
    IF ~arg.str /\ W.routers[f].child_frames # <<>>
    THEN [W EXCEPT !.error = "AttributeError"]
    ELSE IF k # 0
    THEN FrameNavigateTo(AddLog(W, <<Ev("delegate", f, arg.path, "")>>), cf,
                         W.routers[f].child_frames[k].router, arg, server_side, FALSE)
    ELSE FrameNavigateResolved(AddLog(W, FrameResolveLog(W, f, arg)), cf, f,
                               FrameResolveTarget(W, f, arg), server_side, sync)

\* router_frame.py:98-122, k the index of the first matching child frame
FrameNavigateVia(W, cf, f, arg, k, server_side, sync) ==
    IF ~arg.str /\ W.routers[f].child_frames # <<>>
    THEN [W EXCEPT !.error = "AttributeError"]
    ELSE IF k # 0
    THEN FrameNavigateTo(AddLog(W, <<Ev("delegate", f, arg.path, "")>>), cf,
                         W.routers[f].child_frames[k].router, arg, server_side, FALSE)
    ELSE IF arg.str /\ W.routers[f].frame_on_resolve = "unset"
    THEN [W EXCEPT !.error = "NotImplementedError"]
    ELSE FrameNavigateResolved(AddLog(W, FrameResolveLog(W, f, arg)), cf, f,
                               FrameResolveTarget(W, f, arg), server_side, sync)

\* router_frame.py:92-122 with resolve_target (80-90), RouterFrame.navigate_to
FrameNavigateTo(W, cf, f, arg, server_side, sync) ==
    FrameNavigateVia(AddLog(W, <<FrameCallEv(f, arg.path, server_side, sync)>>), cf, f, arg,
                     IF arg.str THEN FirstChildFrame(W.routers[f].child_frames, arg.path)
                     ELSE 0,
                     server_side, sync)

\* ----------------------------------------------------------- specification
\* no resolve_target call has returned in the running operation
NoResult == [called |-> FALSE, r |-> 0, t |-> NotFoundTarget, log |-> <<>>]

NoRouterHooks ==
    [on_navigate |-> "unset", on_resolve |-> "unset", on_open |-> "unset",
     frame_on_resolve |-> "unset"]

\* An application: the flags of its root router, the callbacks declared on
\* its configs and route entries, and the callbacks it installs on the
\* routers of a config when it constructs them.
PlainApp ==
    [use_browser_history |-> TRUE, change_title |-> TRUE,
     on_open |-> [c \in Configs |-> "unset"],
     entry_on_open |-> [e \in EntryIds |-> "unset"],
     handle_navigate |-> [c \in Configs |-> "unset"],
     router_hooks |-> [c \in Configs |-> NoRouterHooks]]

\* every on_open callback is declared and returns its target
OpenApp ==
    [PlainApp EXCEPT !.on_open = [c \in Configs |-> "same"],
                     !.entry_on_open = [e \in EntryIds |-> "same"],
                     !.router_hooks[1].on_open = "same",
                     !.router_hooks[2].on_open = "same"]

\* navigation to /c is vetoed, /ax resolves to an invalid or a custom target
VetoApp ==
    [PlainApp EXCEPT !.use_browser_history = FALSE,
                     !.handle_navigate[2] = "vetoC",
                     !.router_hooks[1].on_navigate = "vetoC",
                     !.router_hooks[1].on_resolve = "invalidX",
                     !.router_hooks[2].on_resolve = "customX"]

\* on_open callbacks redirect
RedirectApp ==
    [PlainApp EXCEPT !.change_title = FALSE,
                     !.on_open[1] = "toC",
                     !.entry_on_open[4] = "swap",
                     !.router_hooks[1].on_open = "swap"]

\* the frames resolve 'open' events against the route table
FrameApp ==
    [PlainApp EXCEPT !.router_hooks[1].frame_on_resolve = "table",
                     !.router_hooks[2].frame_on_resolve = "table"]

\* every on_open callback is declared and marks the title, and the
\* on_resolve callback of the root router returns a target of its own for /c
ResolveApp ==
    [PlainApp EXCEPT !.on_open = [c \in Configs |-> "mark"],
                     !.entry_on_open = [e \in EntryIds |-> "mark"],
                     !.router_hooks[1].on_open = "mark",
                     !.router_hooks[2].on_open = "mark",
                     !.router_hooks[1].on_resolve = "customC"]

Apps == {PlainApp, OpenApp, VetoApp, RedirectApp, FrameApp, ResolveApp}

EmptyWorld ==
    [routers |-> [i \in RouterIds |-> NoRouter], title |-> AppTitle, tasks |-> <<>>,
     log |-> <<>>, result |-> NoResult, error |-> "none", overflow |-> FALSE]

World ==
    [routers |-> routers, title |-> title, tasks |-> tasks,
     log |-> <<>>, result |-> NoResult, error |-> "none", overflow |-> FALSE]

\* no operation is running
Idle == log = <<>>

\* the state an operation leaves; it is not taken when it needs more router
\* objects than the bound allows
Commit(W) ==
    /\ Idle
    /\ ~W.overflow
    /\ routers' = Collect(W).routers
    /\ title' = W.title
    /\ tasks' = W.tasks
    /\ log' = W.log
    /\ error' = W.error
    /\ result' = W.result
    /\ UNCHANGED config

\* the page's root router: the main outlet, constructed without parent
Init ==
    /\ config \in Apps
    /\ routers = InstallHooks(
                    ConstructRouter(EmptyWorld, 1, 1, CfgIncludedPaths(1),
                                    config.use_browser_history, config.change_title, 0,
                                    NoPath),
                    1, config.router_hooks[1]).routers
    /\ title = AppTitle
    /\ tasks = <<>>
    /\ log = <<>>
    /\ result = NoResult
    /\ error = "none"

Existing == {r \in RouterIds : routers[r].exists}

\* The builders of the model do not suspend, so a background build created
\* by an operation (router_frame.py:155) is already in the event loop's
\* ready queue when the operation returns, and runs before the handler of
\* any event that arrives later.
Quiet == tasks = <<>>

\* router.navigate_to(path, server_side, sync, history)
Navigate(r, p, ss, sy, hi) ==
    /\ r \in Existing
    /\ Quiet
    /\ Commit(NavigateTo(World, config, r, StrArg(p), ss, sy, hi))

\* the 'open' event of the frame of router f (router_frame.py:65)
Open(f, p) ==
    /\ f \in Existing
    /\ Quiet
    /\ Commit(FrameNavigateTo(AddLog(World, <<Ev("open", f, p, "")>>), config, f,
                              StrArg(p), FALSE, FALSE))

\* the event loop runs the oldest background build
RunBuild ==
    /\ tasks # <<>>
    /\ Commit(RunTask([World EXCEPT !.tasks = Tail(tasks),
                                     !.log = <<Ev("task", Head(tasks).frame, <<>>, "")>>],
                       config, Head(tasks)))

\* router.clear()
Clear(r) ==
    /\ r \in Existing
    /\ Quiet
    /\ Commit(RouterClear(AddLog(World, <<Ev("call_clear", r, <<>>, "")>>), r))

\* the operation returns to the event loop
Return ==
    /\ ~Idle
    /\ log' = <<>>
    /\ result' = NoResult
    /\ error' = "none"
    /\ UNCHANGED <<routers, config, title, tasks>>

Next ==
    \/ \E r \in RouterIds, p \in Paths, ss \in BOOLEAN, sy \in BOOLEAN, hi \in BOOLEAN :
          Navigate(r, p, ss, sy, hi)
    \/ \E f \in RouterIds, p \in Paths : Open(f, p)
    \/ RunBuild
    \/ \E r \in RouterIds : Clear(r)
    \/ Return

Spec == Init /\ [][Next]_vars

\* ---------------------------------------------- deeply nested outlets
\* An outlet nested MaxNesting levels deep: router i + 1 is constructed by
\* the outlet builder running in the frame of router i, so the routers form
\* one parent_router chain.  Here routers is the sequence of that chain.
\* The propagation of the target url reads nothing of a router but its
\* parent_router, so every nested level uses the nested outlet's config.
InitNested ==
    /\ config = PlainApp
    /\ routers = ConstructRouter([EmptyWorld EXCEPT !.routers = <<NoRouter>>], 1, 1,
                                 CfgIncludedPaths(1), TRUE, TRUE, 0, NoPath).routers
    /\ title = AppTitle
    /\ tasks = <<>>
    /\ log = <<>>
    /\ result = NoResult
    /\ error = "none"

\* the outlet builder of the innermost router constructs the next router
\* (single_page_router.py:25-86 with parent_router the innermost router)
Nest ==
    /\ Len(routers) < MaxNesting
    /\ LET W == ConstructRouter([EmptyWorld EXCEPT !.routers = Append(routers, NoRouter)],
                                Len(routers) + 1, 2, CfgIncludedPaths(2), TRUE, TRUE,
                                Len(routers), NoPath)
       IN /\ routers' = W.routers
          /\ log' = W.log
    /\ UNCHANGED <<config, title, tasks, result, error>>

\* navigate_to of router r reaches line 176 with a valid target whose
\* original_path is u; _update_target_url raises nothing
UpdateUrl(r, u) ==
    /\ r \in {1, Len(routers)}
    /\ LET up == UpdateTargetUrl(routers, r, u)
       IN /\ routers' = up.routers
          /\ log' = <<UpdateUrlEv(r, u, up)>>
    /\ UNCHANGED <<config, title, tasks, result, error>>

NextNested ==
    \/ Nest
    \/ \E r \in 1..MaxNesting, u \in {PA, PC} : UpdateUrl(r, u)

SpecNested == InitNested /\ [][NextNested]_vars

\* ---------------------------------------------- overlapping navigations
\* Background builds that are still pending when the next navigate_to call
\* is made: a handler calls navigate_to more than once before it returns to
\* the event loop, or a builder is suspended at the await of
\* router_frame.py:144.  At most MaxTasks builds are pending.
MaxTasks == 2

\* the paths requested here; /c#f is /c with a fragment
PCF == <<"/", "c", "#", "f">>
AsyncPaths == {PRoot, PA, PAB, PC, PCF}

\* the on_navigate callback "reenterC" returns the path it is given; given
\* /c it first calls navigate_to('/') on its own router
ReentryApp ==
    [PlainApp EXCEPT !.router_hooks[1].on_navigate = "reenterC"]

\* the page's root router, as in Init
InitAsync ==
    /\ config \in {PlainApp, ReentryApp}
    /\ routers = InstallHooks(
                    ConstructRouter(EmptyWorld, 1, 1, CfgIncludedPaths(1),
                                    config.use_browser_history, config.change_title, 0,
                                    NoPath),
                    1, config.router_hooks[1]).routers
    /\ title = AppTitle
    /\ tasks = <<>>
    /\ log = <<>>
    /\ result = NoResult
    /\ error = "none"

\* the callback of router r re-enters navigate_to when it is called with p
Reenters(R, r, p) ==
    /\ R[r].on_navigate = "reenterC"
    /\ p = PC
    /\ FirstChildRouter(R[r].child_routers, p) = 0

\* single_page_router.py:150-200 when the callback called at line 144
\* calls self.navigate_to(q) before it returns: the inner call runs from
\* its first to its last line, then the outer call goes on at line 145
ReenterOnNavigate(W, cf, r, p, q, hn, sync) ==
    NavigateHandled(
        NavigateTo(AddLog(W, <<CallEv(r, p, TRUE, sync, TRUE), Head(hn.log)>>),
                   cf, r, StrArg(q), TRUE, FALSE, TRUE),
        cf, r, StrArg(p), [path |-> hn.path, log |-> Tail(hn.log)], TRUE, sync, TRUE)

\* router.navigate_to(path, sync=sy) while builds may be pending
NavigateAsync(r, p, sy) ==
    /\ r \in Existing
    /\ Len(tasks) < MaxTasks
    /\ ~Reenters(routers, r, p)
    /\ Commit(NavigateTo(World, config, r, StrArg(p), TRUE, sy, TRUE))

\* router.navigate_to('/c', sync=sy) of a router whose callback re-enters
NavigateReentrant(r, sy) ==
    /\ r \in Existing
    /\ Len(tasks) < MaxTasks
    /\ Reenters(routers, r, PC)
    /\ Commit(ReenterOnNavigate(World, config, r, PC, PRoot,
                                HandleNavigate(routers, config, r, PC), sy))

NextAsync ==
    \/ \E r \in RouterIds, p \in AsyncPaths, sy \in BOOLEAN : NavigateAsync(r, p, sy)
    \/ \E r \in RouterIds, sy \in BOOLEAN : NavigateReentrant(r, sy)
    \/ RunBuild
    \/ Return

SpecAsync == InitAsync /\ [][NextAsync]_vars

\* ------------------------------------------- construction with parameters
\* The constructor applied to configs whose base path has '{name}'
\* elements, as /services/{service_name} of the example application, for
\* several target urls and included paths.
PServicesParam ==
    <<"/", "s", "e", "r", "v", "i", "c", "e", "s", "/",
      "{", "s", "e", "r", "v", "i", "c", "e", "_", "n", "a", "m", "e", "}">>
PServices == <<"/", "s", "e", "r", "v", "i", "c", "e", "s">>
PCompute == PServices \o <<"/", "c", "o", "m", "p", "u", "t", "e">>
PComputeVm == PCompute \o <<"/", "v", "m">>
PServicesStar == PServices \o <<"/", "*">>

BasePaths ==
    {PServicesParam, PServices, <<"/", "{", "n", "}">>,
     <<"/", "{", "n", "}", "/", "{", "m", "}">>,
     <<"/", "a", "/", "{", "n", "}", "/", "b", "/", "{", "m", "}">>}
TargetUrls == {PComputeVm, PCompute, PServices, PRoot, PAB, <<"/", "a", "/", "/", "b">>}
IncludedPaths == {PServicesStar, <<"/", "*", "/", "*">>, PA, <<"/", "*", "/", "*", "/", "*", "/", "*", "/", "*", "/", "*">>}

\* single_page_router.py:60: element.startswith("{") and element.endswith("}")
IsParam(element) ==
    element # <<>> /\ element[1] = "{" /\ element[Len(element)] = "}"

\* a config with its base path and an included path, and the target url
\* the router is constructed for
InitConstruct ==
    /\ config \in [base_path : BasePaths, included_path : IncludedPaths,
                   target_url : TargetUrls]
    /\ routers = <<>>
    /\ title = AppTitle
    /\ tasks = <<>>
    /\ log = <<>>
    /\ result = NoResult
    /\ error = "none"

\* single_page_router.py:46-74 for a router without parent
ConstructFrom(base_path, included_paths, target_url, base) ==
    NewRouter(1, TRUE, TRUE, 0, target_url, base, SubstIncludedPaths(included_paths, base))

\* SinglePageRouter(config, included_paths, target_url=target_url)
Construct ==
    /\ routers = <<>>
    /\ routers' = <<ConstructFrom(config.base_path, <<config.included_path>>,
                                  config.target_url,
                                  SubstBasePath(config.base_path, config.target_url))>>
    /\ log' = <<Ev("construct", 1, config.included_path, "")>>
    /\ UNCHANGED <<config, title, tasks, result, error>>

NextConstruct == Construct

SpecConstruct == InitConstruct /\ [][NextConstruct]_vars

\* ------------------------------------------------ several child routers
\* A router whose frame holds several nested outlets: each constructs its
\* router with its own first included path, in the order the builders run
\* (single_page_router.py:75-76).  At most MaxChildren are registered.
MaxChildren == 3

\* the first included paths of the nested outlets and the routers they
\* construct: router i + 1 for the i-th path
ChildMasks == <<PA, PAB, PAX, PC>>

\* single_page_router.py:160-162: the router of the first child, in dict
\* order, whose mask matches; 0 when the loop ends without a match
DelegatedTo(d, target) ==
    IF FirstChildRouter(d, target) = 0 THEN 0 ELSE d[FirstChildRouter(d, target)].router

InitChildren ==
    /\ config = PlainApp
    /\ routers = ConstructRouter([EmptyWorld EXCEPT !.routers = <<NoRouter>>], 1, 1,
                                 CfgIncludedPaths(1), TRUE, TRUE, 0, NoPath).routers
    /\ title = AppTitle
    /\ tasks = <<>>
    /\ log = <<>>
    /\ result = NoResult
    /\ error = "none"

\* the router of the i-th nested outlet is constructed with the root
\* router as parent: line 76 registers it under its first included path
RegisterChild(i) ==
    /\ Len(routers[1].child_routers) < MaxChildren
    /\ \A k \in 1..Len(routers[1].child_routers) :
          routers[1].child_routers[k].mask # ChildMasks[i]
    /\ routers' = RegisterChildRouter(routers, 1, ChildMasks[i], i + 1)
    /\ log' = <<Ev("construct", i + 1, ChildMasks[i], "")>>
    /\ UNCHANGED <<config, title, tasks, result, error>>

\* navigate_to(target) of the root router up to the return of line 164:
\* the child the call is handed to, 0 when the router keeps it
Delegate(target) ==
    /\ log' = <<CallEv(1, target, TRUE, FALSE, TRUE),
                OpenEv("handled_by", 1, target, "",
                       DelegatedTo(routers[1].child_routers, target))>>
    /\ UNCHANGED <<routers, config, title, tasks, result, error>>

NextChildren ==
    \/ \E i \in 1..Len(ChildMasks) : RegisterChild(i)
    \/ \E target \in Paths : Delegate(target)

SpecChildren == InitChildren /\ [][NextChildren]_vars

\* ------------------------------------------- navigation with a target
\* navigate_to called with a SinglePageTarget that was resolved before, in
\* applications that declare navigate, resolve and open callbacks.
GivenTargets == {CfgResolveTarget(1, PC), CfgResolveTarget(2, PAB), CfgResolveTarget(2, PA)}

InitTarget ==
    /\ config \in {VetoApp, ResolveApp}
    /\ routers = InstallHooks(
                    ConstructRouter(EmptyWorld, 1, 1, CfgIncludedPaths(1),
                                    config.use_browser_history, config.change_title, 0,
                                    NoPath),
                    1, config.router_hooks[1]).routers
    /\ title = AppTitle
    /\ tasks = <<>>
    /\ log = <<>>
    /\ result = NoResult
    /\ error = "none"

\* the entry of a navigate_to call with the target t: its path, builder and
\* route entry, and whether the mask of a registered child matches its path
TargetCallEv(R, r, t) ==
    [ev |-> "navigate_target", r |-> r, p |-> t.original_path, x |-> t.builder,
     n |-> t.router_path,
     flags |-> <<FirstChildRouter(R[r].child_routers, t.original_path) # 0>>]

\* router.navigate_to(t, sync=sy), t a SinglePageTarget
NavigateTarget(r, t, sy) ==
    /\ r \in Existing
    /\ Quiet
    /\ Commit(NavigateTo(AddLog(World, <<TargetCallEv(routers, r, t)>>), config, r,
                         TargetArg(t), TRUE, sy, TRUE))

NextTarget ==
    \/ \E r \in RouterIds, p \in {PRoot, PA, PAB, PC}, sy \in BOOLEAN : Navigate(r, p, TRUE, sy, TRUE)
    \/ \E r \in RouterIds, t \in GivenTargets, sy \in BOOLEAN : NavigateTarget(r, t, sy)
    \/ RunBuild
    \/ Return

SpecTarget == InitTarget /\ [][NextTarget]_vars

\* ------------------------------------------------------------- properties
\* the events of the running operation, and the router-level call it began with
Events == {log[i].ev : i \in 1..Len(log)}
RouterCall == log # <<>> /\ log[1].ev = "navigate_to"

\* p is the mask itself or lies below it: the mask followed by '/' and
\* anything
UnderMask(p, mask) ==
    \/ p = mask
    \/ /\ Len(p) > Len(mask)
       /\ SubSeq(p, 1, Len(mask) + 1) = mask \o <<"/">>

\* the first child registered with router r whose mask p is under
FirstUnder(r, p) ==
    LET d == routers[r].child_routers
        i == CHOOSE i \in 1..Len(d) :
                /\ UnderMask(p, d[i].mask)
                /\ \A j \in 1..(i - 1) : ~UnderMask(p, d[j].mask)
    IN d[i].router

\* C1: when navigate_to is called on a router with a string target that is
\* the mask of a registered child or lies below it, the router forwards the
\* call, with the same target, to the first such child in registration order
\* and does nothing else: no callback of its own runs, it resolves nothing,
\* pushes no history entry, and its content and children stay as they were.
C1_DelegatesToFirstChild ==
    [][(Idle /\ log' # <<>> /\ log'[1].ev = "navigate_to")
        => LET r == log'[1].r
               p == log'[1].p
               d == routers[r].child_routers
           IN (\E i \in 1..Len(d) : UnderMask(p, d[i].mask))
              => /\ Len(log') >= 3
                 /\ log'[2] = Ev("delegate", r, p, "")
                 /\ log'[3].ev = "navigate_to"
                 /\ log'[3].r = FirstUnder(r, p)
                 /\ log'[3].p = p
                 /\ \A i \in 3..Len(log') : log'[i].r # r
                 /\ routers'[r].content = routers[r].content
                 /\ routers'[r].child_routers = routers[r].child_routers]_vars

\* a parent forwarded a navigation below its child's mask and the child
\* rendered it
C1_Witness ==
    /\ RouterCall
    /\ Len(log) >= 3
    /\ log[2].ev = "delegate"
    /\ log[1].p # routers[log[1].r].child_routers[1].mask
    /\ \E i \in 4..Len(log) : log[i].ev \in {"build", "schedule"} /\ log[i].r = log[3].r

\* C2: a delegated call carries the target and the server_side, sync and
\* history values of the call it was delegated from.
C2_FlagsForwarded ==
    RouterCall =>
       \A i \in 2..(Len(log) - 1) :
          log[i].ev = "delegate"
             => /\ log[i + 1].ev = "navigate_to"
                /\ log[i + 1].p = log[i - 1].p
                /\ log[i + 1].flags = log[i - 1].flags

\* C3: after a navigation that resolved to a valid target, the frame of the
\* router that handled it and the frame of every router its parent_router
\* chain leads to have the target's original_path as target_url.
C3_EveryAncestorUpdated ==
    (log # <<>> /\ log[1].ev = "update_url")
       => \A a \in Ancestors(routers, log[1].r, MaxNesting) :
             routers[a].target_url = log[1].p

\* the events that change what a router shows or the browser's history
Effects ==
    {"update_url", "push", "fragment_js", "on_pre_update", "clear", "frame_clear",
     "title", "build", "schedule", "on_post_update"}

\* C4: when the on_navigate callback of the handling router, or the
\* handle_navigate of its config, returns None, navigate_to changes nothing:
\* no target is resolved, no callback of the open or update stages runs, no
\* history entry is pushed, and routers, title and pending builds stay as
\* they were.
C4_VetoChangesNothing ==
    [][(Idle /\ log' # <<>> /\ log'[1].ev = "navigate_to"
             /\ \E i \in 1..Len(log') : log'[i].ev = "returned_none")
        => /\ routers' = routers
           /\ title' = title
           /\ tasks' = tasks
           /\ ~result'.called
           /\ \A i \in 1..Len(log') :
                 log'[i].ev \in {"navigate_to", "delegate", "on_navigate",
                                 "cfg_handle_navigate", "returned_none"}]_vars

\* the on_navigate callback of a router returned None for a navigation
C4_Witness ==
    /\ RouterCall
    /\ \E i \in 2..Len(log) : log[i].ev = "returned_none" /\ log[i - 1].ev = "on_navigate"

\* the handling router cleared its frame and built, or scheduled the build
\* of, the not-found page under the title 'Page not found'
NotFoundRendered ==
    /\ error = "none"
    /\ \E i \in 1..Len(log) :
          /\ log[i] = Ev("clear", result.r, <<>>, "")
          /\ \E j \in (i + 1)..Len(log) :
                /\ log[j].ev \in {"build", "schedule"}
                /\ log[j].r = result.r
                /\ log[j].x = "page_not_found"
          /\ \E j \in (i + 1)..Len(log) :
                log[j] = Ev("title", result.r, <<>>, "Page not found")

\* C5 as stated: a resolved target that is invalid or has no builder, and
\* carries no fragment, is replaced by the not-found target and rendered.
C5_InvalidOrBuilderlessRendered ==
    (RouterCall /\ result.called
        /\ (~result.t.valid \/ result.t.builder = "None")
        /\ result.t.fragment = NoPath)
       => NotFoundRendered

\* C5: a resolved target that is valid, has no builder and carries no
\* fragment is replaced by the not-found target (title 'Page not found')
\* and rendered through the clear-and-build path; nothing is raised and the
\* navigation is not dropped.
C5_ValidBuilderlessRendered ==
    (RouterCall /\ result.called
        /\ result.t.valid /\ result.t.builder = "None"
        /\ result.t.fragment = NoPath)
       => NotFoundRendered

\* a path no route matches was resolved to a valid target without builder
C5_Witness ==
    /\ RouterCall /\ result.called
    /\ result.t.valid /\ result.t.builder = "None" /\ result.t.fragment = NoPath
    /\ "build" \in Events

\* C6: when the resolved target is not valid, navigate_to changes nothing:
\* no target url is written, no history entry pushed, no update callback
\* run, nothing cleared, built or scheduled, and nothing raised.
C6_InvalidSuppressed ==
    [][(Idle /\ log' # <<>> /\ log'[1].ev = "navigate_to"
             /\ result'.called /\ ~result'.t.valid)
        => /\ routers' = routers
           /\ title' = title
           /\ tasks' = tasks
           /\ error' = "none"
           /\ \A i \in 1..Len(log') : log'[i].ev \notin Effects]_vars

\* the on_resolve callback returned a target that is not valid
C6_Witness ==
    /\ RouterCall /\ result.called /\ ~result.t.valid
    /\ "on_resolve" \in Events

\* C7: when an on_open callback has changed original_path, resolution
\* starts again for the new path, so the target returned has the route and
\* the builder the route table yields for the path it names.
C7_RedirectResolvedAgain ==
    (RouterCall /\ result.called
        /\ routers[result.r].on_resolve = "unset"
        /\ \E i \in 1..Len(result.log) : result.log[i].ev = "re_resolve")
       => LET t == CfgResolveTarget(routers[result.r].config, result.t.original_path)
          IN /\ result.t.router_path = t.router_path
             /\ result.t.builder = t.builder

\* C8: when the router's on_open callback rewrites original_path again on
\* every re-resolution, the chain of re-resolutions is cut off and a fatal
\* configuration error is reported.
C8_RedirectLoopReported ==
    (RouterCall /\ result.called
        /\ \E i \in 2..Len(result.log) :
              /\ result.log[i].ev = "re_resolve"
              /\ result.log[i - 1].ev = "on_open_router"
              /\ CallOpenHook(result.log[i - 1].x, result.t).original_path
                    # result.t.original_path)
       => error # "none"

\* C9: when _update_target_url reaches its cap of
\* PATH_RESOLVING_MAX_RECURSION routers before the parent_router chain
\* ends, a configuration error is reported.
C9_CapReported ==
    (log # <<>> /\ log[1].ev = "update_url" /\ log[1].x = "cap_reached")
       => error # "none"

\* C10: a navigation that did not originate on the server side, the 'open'
\* event of a frame or a navigate_to with server_side false, emits no
\* history push on any router or frame that handles it.
C10_NoPushFromBrowser ==
    (log # <<>> /\ (log[1].ev = "open" \/ (RouterCall /\ ~log[1].flags[1])))
       => "push" \notin Events

\* C11: once every background build has run, a frame holds the content of
\* its latest navigation only: a build that was scheduled before a later
\* navigation cleared the frame mounts nothing in it.
C11_StaleBuildMountsNothing ==
    Quiet => \A r \in Existing : Len(routers[r].content) <= 1

\* C12: navigate_to calls on one router are serialized: between the begin
\* of a navigate_to call on a router and the begin of the next one on the
\* same router, the first has made its clear step.
C12_NavigationsSerialized ==
    \A i \in 1..Len(log), j \in 1..Len(log) :
        (/\ i < j
         /\ log[i].ev = "navigate_to"
         /\ log[j].ev = "navigate_to"
         /\ log[i].r = log[j].r)
        => \E k \in (i + 1)..(j - 1) : log[k].ev = "clear" /\ log[k].r = log[i].r

\* C13: a router whose frame builds a nested outlet is a container and does
\* not set the page title: in an operation in which a frame builds, or
\* schedules the build of, an outlet, neither that frame nor its router
\* calls ui.page_title.
C13_ContainerSetsNoTitle ==
    \A i \in 1..Len(log), j \in 1..Len(log) :
        (/\ log[i].ev \in {"build", "schedule"}
         /\ BuilderOutlet(log[i].x) # 0)
        => ~(log[j].ev = "title" /\ log[j].r = log[i].r)

\* the call navigate_to(result.t) on the router that resolved it, made
\* right after the call that is running
SecondCall(sy) ==
    NavigateTo(World, config, result.r, TargetArg(result.t), TRUE, sy, TRUE)

\* the events of W's log that happened in router or frame r
EventsOf(W, r) == {W.log[i].ev : i \in {k \in 1..Len(W.log) : W.log[k].r = r}}

\* W leaves the target_url of r and of its ancestors as they are now
SameUrls(W, r) ==
    \A a \in Ancestors(routers, r, MaxRouters) :
        W.routers[a].target_url = routers[a].target_url

\* in W router r cleared its children and its frame and ran, or scheduled,
\* the builder
BuiltAgain(W, r, builder) ==
    /\ {"clear", "frame_clear"} \subseteq EventsOf(W, r)
    /\ \E i \in 1..Len(W.log) :
          /\ W.log[i].ev \in {"build", "schedule"}
          /\ W.log[i].r = r
          /\ W.log[i].x = builder

\* C14 as stated: after navigate_to resolved a target, a second
\* navigate_to with that target leaves the target_url of the router and of
\* every ancestor the same, and it clears the frame and the child routers
\* and invokes the builder again.
C14_SecondCallSameUrlAndRebuilt ==
    (result.called /\ routers[result.r].exists)
    => \A sy \in BOOLEAN :
          /\ SameUrls(SecondCall(sy), result.r)
          /\ BuiltAgain(SecondCall(sy), result.r, RenderedTarget(result.t).builder)

\* C14 amended: the target_url of the router and of every ancestor is the
\* same after the second call; a valid target that is not a bare fragment
\* is rendered again, the frame and the child routers cleared and the
\* builder run or scheduled; an invalid target or a bare fragment clears
\* nothing and builds nothing in the second call.
C14_SecondCallSameUrl ==
    (result.called /\ routers[result.r].exists)
    => \A sy \in BOOLEAN :
          /\ SameUrls(SecondCall(sy), result.r)
          /\ IF /\ ~Suppressed(result.t)
                /\ (result.t.builder # "None" \/ result.t.fragment = NoPath)
             THEN BuiltAgain(SecondCall(sy), result.r, RenderedTarget(result.t).builder)
             ELSE EventsOf(SecondCall(sy), result.r)
                      \cap {"clear", "frame_clear", "build", "schedule"} = {}

\* a nested router has rendered a view: it has an ancestor
C14_Witness ==
    /\ result.called
    /\ routers[result.r].exists
    /\ routers[result.r].parent_router # 0
    /\ result.t.valid
    /\ result.t.builder # "None"
    /\ "update_url" \in Events
    /\ BuiltAgain(SecondCall(FALSE), result.r, result.t.builder)

\* C15: a navigate_to call whose target differs from the target_url of the
\* router's frame in the fragment only clears nothing and builds nothing:
\* of clear, build and fragment script it runs the fragment script alone.
C15_FragmentOnlyRebuildsNothing ==
    [][(/\ log' # <<>>
        /\ log'[1].ev = "navigate_to"
        /\ result'.called
        /\ result'.r = log'[1].r
        /\ ~Suppressed(result'.t)
        /\ result'.t.fragment # NoPath
        /\ PathPart(log'[1].p) = PathPart(routers[log'[1].r].target_url)
        /\ FragmentPart(log'[1].p) # FragmentPart(routers[log'[1].r].target_url))
       => /\ {log'[i].ev : i \in 1..Len(log')}
                \cap {"clear", "frame_clear", "build", "schedule"} = {}
          /\ \E i \in 1..Len(log') : log'[i].ev = "fragment_js"]_vars

\* C16: the constructor replaces every '{name}' element of the config's
\* base path by the element of the target url at the same index, and
\* leaves it when the target url has fewer elements; it replaces every '*'
\* element of an included path by the element of the resolved base path at
\* the same index; every other element stays.  Base path
\* /services/{service_name} and target url /services/compute/vm give the
\* base path /services/compute.
C16_SegmentsSubstituted ==
    routers # <<>> =>
        /\ Len(Split(routers[1].base_path, "/")) = Len(Split(config.base_path, "/"))
        /\ \A i \in 1..Len(Split(config.base_path, "/")) :
              Split(routers[1].base_path, "/")[i] =
                 IF /\ IsParam(Split(config.base_path, "/")[i])
                    /\ i <= Len(Split(config.target_url, "/"))
                 THEN Split(config.target_url, "/")[i]
                 ELSE Split(config.base_path, "/")[i]
        /\ Len(Split(routers[1].included_paths[1], "/"))
              = Len(Split(config.included_path, "/"))
        /\ \A j \in 1..Len(Split(config.included_path, "/")) :
              Split(routers[1].included_paths[1], "/")[j] =
                 IF /\ Split(config.included_path, "/")[j] = <<"*">>
                    /\ j <= Len(Split(routers[1].base_path, "/"))
                 THEN Split(routers[1].base_path, "/")[j]
                 ELSE Split(config.included_path, "/")[j]
        /\ (config.base_path = PServicesParam /\ config.target_url = PComputeVm)
              => routers[1].base_path = PCompute

\* the router of /services/{service_name} was constructed at
\* /services/compute/vm with the included path /services/*
C16_Witness ==
    /\ routers # <<>>
    /\ config.base_path = PServicesParam
    /\ config.target_url = PComputeVm
    /\ config.included_path = PServicesStar
    /\ routers[1].base_path = PCompute
    /\ routers[1].included_paths = <<PCompute>>

\* what the on_resolve callback whose call is the log entry e returned
HookAnswer(e) == CallResolveHook(e.x, StrArg(e.p))

\* C17: when the on_resolve callback returns a target, resolve_target
\* returns that target and does nothing more: the callback's call is the
\* last entry of the resolution, so the route table is not consulted and no
\* on_open callback runs; the config's resolver is consulted only when no
\* callback is set or the callback returned None.
C17_OnResolveTargetReturned ==
    result.called =>
        \A i \in 1..Len(result.log) :
            /\ (result.log[i].ev = "on_resolve" /\ ~HookAnswer(result.log[i]).none)
                  => /\ i = Len(result.log)
                     /\ result.t = HookAnswer(result.log[i]).t
            /\ (result.log[i].ev = "cfg_resolve" /\ i > 1
                   /\ result.log[i - 1].ev = "on_resolve")
                  => HookAnswer(result.log[i - 1]).none

\* the callback answered for /c, a path with a route entry, in an
\* application that declares on_open callbacks at every level
C17_Witness ==
    /\ result.called
    /\ config.on_open[1] # "unset"
    /\ routers[result.r].on_open # "unset"
    /\ result.log # <<>>
    /\ result.log[Len(result.log)].ev = "on_resolve"
    /\ result.log[Len(result.log)].p = PC
    /\ CfgResolveTarget(1, PC).router_path # 0
    /\ config.entry_on_open[CfgResolveTarget(1, PC).router_path] # "unset"
    /\ result.t.builder = "custom_view"
    /\ \E i \in 1..Len(log) : log[i].ev = "build" /\ log[i].x = "custom_view"

\* the entries of calls of navigate_to, of a router or of a frame
CallEvents == {"navigate_to", "frame_navigate_to"}

\* the _sync argument of the update_content call that made entry i: the
\* sync flag of the last navigate_to call of that frame before i
SyncOf(i) ==
    log[CHOOSE k \in 1..(i - 1) :
            /\ log[k].ev \in CallEvents /\ log[k].r = log[i].r
            /\ \A m \in (k + 1)..(i - 1) :
                  ~(log[m].ev \in CallEvents /\ log[m].r = log[i].r)].flags[2]

\* the entry before entry i is the clear of the same frame
ClearedJustBefore(i) ==
    i > 1 /\ log[i - 1].ev = "frame_clear" /\ log[i - 1].r = log[i].r

BuildsOf(f) == {i \in 1..Len(log) : log[i].ev = "build" /\ log[i].r = f}

OpenEvents == {"on_open_router", "on_open_entry", "on_open_config"}
OpenIdx == {i \in 1..Len(result.log) : result.log[i].ev \in OpenEvents}

\* a config and its parent configs; the place of config n among them
RECURSIVE ConfigChain(_)
ConfigChain(c) == IF c = 0 THEN {} ELSE {c} \cup ConfigChain(CfgParent(c))

RECURSIVE ChainPos(_, _)
ChainPos(c, n) == IF c = n \/ c = 0 THEN 0 ELSE 1 + ChainPos(CfgParent(c), n)

\* the place of an on_open call in the order router, entry, config, parents
OpenRank(e) ==
    IF e.ev = "on_open_router" THEN 1
    ELSE IF e.ev = "on_open_entry" THEN 2
    ELSE 3 + ChainPos(routers[result.r].config, e.n)

\* the route entry the config's resolver matched in this resolution, 0 if
\* it matched none or was not consulted
MatchedEntry ==
    IF \E i \in 1..Len(result.log) : result.log[i].ev = "cfg_resolve"
    THEN CfgResolveTarget(
            routers[result.r].config,
            result.log[CHOOSE i \in 1..Len(result.log) :
                          result.log[i].ev = "cfg_resolve"].p).router_path
    ELSE 0

\* the number of on_open callbacks declared for router r and entry e
HooksDeclared(r, e) ==
    (IF routers[r].on_open # "unset" THEN 1 ELSE 0)
    + (IF config.entry_on_open[e] # "unset" THEN 1 ELSE 0)
    + Cardinality({c \in ConfigChain(routers[r].config) : config.on_open[c] # "unset"})

RECURSIVE Marked(_, _)
Marked(ttl, n) == IF n = 0 THEN ttl ELSE Marked(ttl, n - 1) \o "+"

\* C19: resolve_target calls the on_open callbacks in the order router,
\* route entry, config, parent configs from the innermost to the outermost,
\* each at most once; when no callback redirects, every declared one is
\* called, and each is given the target the one before returned, so that
\* the returned target carries the change of every callback; no on_open
\* callback is called when the target has no matched route entry.
C19_OpenHooksInOrder ==
    (result.called /\ routers[result.r].exists) =>
        /\ \A i \in OpenIdx, j \in OpenIdx :
              i < j => OpenRank(result.log[i]) < OpenRank(result.log[j])
        /\ MatchedEntry = 0 => OpenIdx = {}
        /\ (MatchedEntry # 0 /\ \A i \in 1..Len(result.log) : result.log[i].ev # "re_resolve")
              => Cardinality(OpenIdx) = HooksDeclared(result.r, MatchedEntry)
        /\ (MatchedEntry # 0 /\ config = ResolveApp)
              => result.t.title
                    = Marked(RouteEntries[MatchedEntry].title, Cardinality(OpenIdx))

\* a nested router resolved /a/b: its own callback, the entry's, its
\* config's and the parent config's were called and each marked the title
C19_Witness ==
    /\ result.called
    /\ routers[result.r].exists
    /\ config = ResolveApp
    /\ routers[result.r].parent_router # 0
    /\ MatchedEntry # 0
    /\ [i \in 1..4 |-> result.log[i + 1].ev]
          = <<"on_open_router", "on_open_entry", "on_open_config", "on_open_config">>
    /\ result.log[4].n = 2
    /\ result.log[5].n = 1
    /\ result.t.title = "AB++++"

\* the entries of router r with event ev, in the running operation
At(ev, r) == {i \in 1..Len(log) : log[i].ev = ev /\ log[i].r = r}

\* every entry of S comes before every entry of T
Before(S, T) == \A i \in S, j \in T : i < j

\* C20: a navigate_to call that swaps the content does its steps in the
\* order target_url update, history push, on_pre_update, clear, build of
\* the new content, on_post_update; on_post_update is not called before
\* the new content has been built.
C20_SwapOrder ==
    \A r \in RouterIds :
        At("clear", r) # {} /\ At("navigate_to", r) # {} =>
            /\ Before(At("update_url", r), At("push", r))
            /\ Before(At("update_url", r) \cup At("push", r), At("on_pre_update", r))
            /\ Before(At("on_pre_update", r), At("clear", r))
            /\ Before(At("clear", r), At("build", r))
            /\ Before(At("build", r), At("on_post_update", r))
            /\ At("on_post_update", r) # {} => At("build", r) # {}

\* the frame f has the content of an outlet builder mounted, and with it
\* the frame of the child router that builder constructed
OutletMounted(f) ==
    \E k \in 1..Len(routers[f].content) : BuilderOutlet(routers[f].content[k]) # 0

\* C21: constructing a child router never overwrites the slot of a sibling
\* that is still mounted: when a builder running in a frame constructs a
\* router, the frame was cleared earlier in the same operation, or it was
\* empty of outlets before, or the parent's child_routers held no slot
\* for the new router's first included path.
C21_NoSlotOverwritten ==
    [][\A i \in 2..Len(log') :
          (log'[i].ev = "construct" /\ log'[i - 1].ev = "build")
          => \/ \E j \in 1..(i - 1) :
                   log'[j].ev = "frame_clear" /\ log'[j].r = log'[i - 1].r
             \/ ~OutletMounted(log'[i - 1].r)
             \/ \A k \in 1..Len(routers[log'[i - 1].r].child_routers) :
                   routers[log'[i - 1].r].child_routers[k].mask # log'[i].p]_vars

\* C22: a content swap discards the children of the router, so that a
\* later navigation is not delegated to a discarded child: whenever
\* navigate_to delegates to a registered child, the outlet whose builder
\* constructed that child is still mounted in the router's frame.
C22_NoDelegationToDiscarded ==
    [][\A i \in 1..Len(log') :
          log'[i].ev = "delegate" => OutletMounted(log'[i].r)]_vars

\* the registrations of d in another order
Reorderings(d) ==
    {[i \in 1..Len(d) |-> d[f[i]]] :
        f \in {g \in [1..Len(d) -> 1..Len(d)] : \A i, j \in 1..Len(d) : g[i] = g[j] => i = j}}

\* C23: the child a navigation is delegated to is the same under every
\* order of registration of the same children.
C23_OrderIrrelevant ==
    (log # <<>> /\ log[1].ev = "navigate_to")
    => \A d \in Reorderings(routers[1].child_routers) :
          DelegatedTo(d, log[1].p) = log[2].n

\* C24: an 'open' event for a frame without on_resolve handler, whose
\* string target no child frame claims, ends in NotImplementedError, and
\* the failed call changes nothing: target_url, content and child frames of
\* every frame, the page title and the pending builds are as before, and
\* no history entry is pushed.
C24_UnresolvableFailsUnchanged ==
    [][(/\ log' # <<>>
        /\ log'[1].ev = "open"
        /\ routers[log'[1].r].frame_on_resolve = "unset"
        /\ FirstChildFrame(routers[log'[1].r].child_frames, log'[1].p) = 0)
       => /\ error' = "NotImplementedError"
          /\ routers' = routers
          /\ title' = title
          /\ tasks' = tasks
          /\ {log'[i].ev : i \in 1..Len(log')} \cap (Effects \cup {"frame_url"}) = {}]_vars

\* the call failed in a frame that shows a view and has a nested router
C24_Witness ==
    /\ error = "NotImplementedError"
    /\ log[1].ev = "open"
    /\ routers[log[1].r].content # <<>>
    /\ routers[log[1].r].target_url # log[1].p
    /\ \E r \in Existing : routers[r].parent_router # 0

\* C25: when no operation is running and no build is pending, every router
\* registered in the child_routers of a router has that router's
\* target_url.
C25_ChildHasParentUrl ==
    (Idle /\ Quiet) =>
        \A r \in Existing : \A k \in 1..Len(routers[r].child_routers) :
            routers[routers[r].child_routers[k].router].target_url = routers[r].target_url

\* the running operation is a navigate_to call with a SinglePageTarget
TargetCall == log # <<>> /\ log[1].ev = "navigate_target"

\* the on_resolve callback answered in the running call
HookAnswered ==
    \E i \in 1..Len(result.log) :
        result.log[i].ev = "on_resolve" /\ ~HookAnswer(result.log[i]).none

\* C26: navigate_to with a SinglePageTarget is handled by the router it is
\* called on: no child is consulted, on_navigate and the config's
\* handle_navigate are not called, the route table is not consulted and no
\* on_open callback runs; the target is used as given unless the
\* on_resolve callback returns another.
C26_TargetHandledAsGiven ==
    TargetCall =>
        /\ Events \cap ({"delegate", "on_navigate", "cfg_handle_navigate", "returned_none",
                         "cfg_resolve", "re_resolve"} \cup OpenEvents) = {}
        /\ \A i \in 2..Len(log) : log[i].ev = "navigate_to" => i = 2 /\ log[i].r = log[1].r
        /\ result.called
        /\ result.r = log[1].r
        /\ ~HookAnswered
              => /\ result.t.original_path = log[1].p
                 /\ result.t.builder = log[1].x
                 /\ result.t.router_path = log[1].n
        /\ HookAnswered => result.t = HookAnswer(result.log[1]).t

\* a target under the mask of a registered child was given to a router
\* whose application declares navigate and open callbacks, and rendered
C26_Witness ==
    /\ TargetCall
    /\ log[1].flags = <<TRUE>>
    /\ config.on_open[1] # "unset"
    /\ log[1].n # 0
    /\ config.entry_on_open[log[1].n] # "unset"
    /\ "clear" \in Events
    /\ result.t.original_path = PAB

====
